---- MODULE Spec2Model ----
(***************************************************************************)
(* Model of the Ferrovac piezo stepper-motor controller driver             *)
(* (stepper_motor_control.py): the wiring resolver compress_dict, the      *)
(* pulse sequencer walk / walk_steps / walk_bursts, the mode read-back     *)
(* get_motor_setting, the turn-around corrector and the step converter     *)
(* conv_one_step / conv_steps.                                             *)
(*                                                                         *)
(* A Python dict is a TLA+ function whose DOMAIN is its key set; a dict    *)
(* whose iteration order is used (the bit pattern of a direction) is a     *)
(* sequence of <<key, value>> pairs in insertion order.  Times are in      *)
(* microseconds.                                                           *)
(***************************************************************************)
EXTENDS Integers, Sequences, FiniteSets, TLC

VARIABLES
    pin_dct,    \* self.pin_dct : controller function -> U3 channel number
    mot_dir,    \* self.mot_dir : direction -> ordered bit pattern
    turn_dct,   \* self.turn_dct : direction change -> turn sequence
    mod_dct,    \* the module's dicts CONV_TO, OPPOSITE_DIR, TURN_AROUND_FROM
    dio,        \* level of the U3 lines FIO0..FIO7
    call,       \* the operation the caller invoked, with its arguments
    pc,         \* position of the running operation
    stack,      \* return positions of the functions being executed
    loc,        \* local variables of the functions being executed
    trace,      \* DAQ reads, batched writes and sleeps of the running call
    result,     \* how the call ended: "returned" or the error raised
    retval,     \* value returned by the call: None, a mode name, or the
                \* type of the numbers returned
    retnum,     \* the numbers returned by the call, if it returns numbers
    seen,       \* the caller's last reading of the mode, while it stands
    supply,     \* the power supply object: its class, its dicts, its device
    args,       \* compress_dict: the argument tuple *args
    ret         \* compress_dict: its outcome

vars == <<pin_dct, mot_dir, turn_dct, mod_dct, dio, call, pc, stack, loc,
          trace, result, retval, retnum, seen, supply, args, ret>>

(***************************************************************************)
(* Bounds of the model.                                                    *)
(***************************************************************************)
\* largest integer step count a caller passes to walk_steps / walk_bursts
MaxSteps == 3
\* longest chain of mappings handed to compress_dict
MaxChain == 3
\* largest step number (in absolute value) handed to conv_one_step
MaxStepNr == 100
\* largest current handed to set_current, in steps of 500 mA
MaxCurrent == 21
\* largest voltage an analog input shows, in steps of 500 mV
MaxAin == 5

(***************************************************************************)
(* Pin configuration tables.                                               *)
(***************************************************************************)
\* Python's None (the channel of the GND terminal)
None == -1

U3_PIN_CONFIG ==
    ("FIO0" :> 0) @@ ("FIO1" :> 1) @@ ("FIO2" :> 2) @@ ("FIO3" :> 3) @@
    ("FIO4" :> 4) @@ ("FIO5" :> 5) @@ ("FIO6" :> 6) @@ ("FIO7" :> 7) @@
    ("GND" :> None)

\* a wiring table with the green wire entered on a terminal the U3 lacks
U3_WIRING_green_miswired ==
    ("brown" :> "FIO0") @@ ("red" :> "FIO1") @@ ("orange" :> "FIO2") @@
    ("blue" :> "FIO5") @@ ("violet" :> "FIO6") @@ ("green" :> "FIO8") @@
    ("black" :> "GND") @@ ("yellow" :> "n.c.")

U3_WIRING ==
    ("brown" :> "FIO0") @@ ("red" :> "FIO1") @@ ("orange" :> "FIO2") @@
    ("blue" :> "FIO5") @@ ("violet" :> "FIO6") @@ ("green" :> "FIO7") @@
    ("black" :> "GND") @@ ("yellow" :> "n.c.")

DSUB9_PIN_CONFIG ==
    (1 :> "black") @@ (2 :> "brown") @@ (3 :> "red") @@ (4 :> "orange") @@
    (5 :> "n.c.") @@ (6 :> "yellow") @@ (7 :> "blue") @@ (8 :> "violet") @@
    (9 :> "green")

\* a controller table with bit2 entered on the pin of the burst LED
CONTROLLER_PIN_CONFIG_bit2_on_LED ==
    ("GND" :> 1) @@ ("bit0" :> 2) @@ ("bit1" :> 3) @@ ("bit2" :> 7) @@
    ("LED_burst" :> 7) @@ ("LED_single" :> 8) @@ ("LED_cont" :> 9)

CONTROLLER_PIN_CONFIG ==
    ("GND" :> 1) @@ ("bit0" :> 2) @@ ("bit1" :> 3) @@ ("bit2" :> 4) @@
    ("LED_burst" :> 7) @@ ("LED_single" :> 8) @@ ("LED_cont" :> 9)

(***************************************************************************)
(* compress_dict.  An argument is a tagged value, so that the type test    *)
(* of the code can be made; the outcome is the returned dict or the        *)
(* exception raised.                                                       *)
(***************************************************************************)
PyDict(f) == [type |-> "dict", items |-> f]

PyList(s) == [type |-> "list", items |-> s]

Returned(v) == [exc |-> "none", val |-> v]

Raised(e) == [exc |-> e, val |-> <<>>]

\* all(val in tmp_.keys() for val in dct.values())
ValuesAreKeys(dct, tmp_) == \A k \in DOMAIN dct : dct[k] \in DOMAIN tmp_

\* a re-mapping that keeps the keys of the next table instead of the first
RemapKeysOfNext(dct, tmp_) == [k \in DOMAIN tmp_ |-> tmp_[k]]

\* {k: tmp_[v] for (k,v) in dct.items()}
Remap(dct, tmp_) == [k \in DOMAIN dct |-> tmp_[dct[k]]]

RECURSIVE compress_loop_break(_, _)
\* a loop that stops at an inconsistent table instead of raising
compress_loop_break(dct, dct_lst) ==
    IF Len(dct_lst) = 0
    THEN Returned(dct)
    ELSE LET tmp_ == Head(dct_lst)
         IN  IF ~ ValuesAreKeys(dct, tmp_)
             THEN Returned(dct)
             ELSE compress_loop_break(Remap(dct, tmp_), Tail(dct_lst))

RECURSIVE compress_loop(_, _)
\* the while loop: dct_lst.pop(0), the consistency test, the re-mapping
compress_loop(dct, dct_lst) ==
    IF Len(dct_lst) = 0
    THEN Returned(dct)
    ELSE LET tmp_ == Head(dct_lst)
         IN  IF ~ ValuesAreKeys(dct, tmp_)
             THEN Raised("KeyError")
             ELSE compress_loop(Remap(dct, tmp_), Tail(dct_lst))

compress_dict(a) ==
    IF \E i \in 1..Len(a) : a[i].type # "dict"
    THEN Raised("ValueError")
    ELSE IF Len(a) = 0
    THEN Raised("IndexError")
    ELSE compress_loop(Head(a).items, [i \in 1..(Len(a) - 1) |-> a[i + 1].items])

\* the argument tuple compile_wiring_dict passes
WiringChain ==
    <<PyDict(CONTROLLER_PIN_CONFIG), PyDict(DSUB9_PIN_CONFIG),
      PyDict(U3_WIRING), PyDict(U3_PIN_CONFIG)>>

compile_wiring_dict == compress_dict(WiringChain).val

(***************************************************************************)
(* Direction, mode and turn-around tables.                                 *)
(***************************************************************************)
MOVEMENT_SETTINGS == <<"LED_cont", "LED_burst", "LED_single">>

MOTOR_DIRECTIONS ==
    ("left" :> <<1, 0, 1>>) @@ ("right" :> <<1, 1, 0>>) @@
    ("back" :> <<0, 1, 0>>) @@ ("down" :> <<1, 0, 0>>) @@
    ("fwd" :> <<0, 0, 1>>) @@ ("up" :> <<0, 1, 1>>) @@
    ("stop" :> <<1, 1, 1>>)

\* a list of control lines that lacks the third line
BIT_LIST_two_lines == <<"bit0", "bit1">>

BIT_LIST == <<"bit0", "bit1", "bit2">>

\* 0.15 s
BURST_PULSE_DURATION == 150000

\* time.sleep(0.01) after every walk of walk_steps and walk_bursts
STEP_SLEEP == 10000

TURN_AROUND_STEP_SEQUENCE ==
    ("fwd_to_back" :> <<<<"fwd", 100>>, <<"back", 55>>>>) @@
    ("back_to_fwd" :> <<<<"back", 50>>, <<"fwd", 110>>>>)

\* a table that gives each of 'fwd' and 'back' the key of the other
TURN_AROUND_FROM_crossed ==
    ("left" :> "left_to_right") @@ ("right" :> "right_to_left") @@
    ("fwd" :> "back_to_fwd") @@ ("back" :> "fwd_to_back")

TURN_AROUND_FROM ==
    ("left" :> "left_to_right") @@ ("right" :> "right_to_left") @@
    ("fwd" :> "fwd_to_back") @@ ("back" :> "back_to_fwd")

\* an IEEE double m * 2^(e-52): its 53-bit significand m in three limbs of
\* 18 bits, most significant first, and its exponent e
Double(m2, m1, m0, e) == [m |-> <<m2, m1, m0>>, e |-> e]

\* 87./78. = 0x1.1d89d89d89d8ap+0
RATIO_RIGHT_TO_LEFT == Double(73097, 221814, 40330, 0)

\* 450./205. = 0x1.18f9c18f9c190p+1
RATIO_BACK_TO_FWD == Double(71929, 198206, 115088, 1)

\* 1./RATIO_RIGHT_TO_LEFT = 0x1.cb08d3dcb08d4p-1
INV_RATIO_RIGHT_TO_LEFT == Double(117512, 216946, 198868, -1)

CONV_TO ==
    ("left" :> RATIO_RIGHT_TO_LEFT) @@ ("right" :> INV_RATIO_RIGHT_TO_LEFT) @@
    ("fwd" :> RATIO_BACK_TO_FWD) @@ ("back" :> INV_RATIO_RIGHT_TO_LEFT)

OPPOSITE_DIR ==
    ("fwd" :> "back") @@ ("back" :> "fwd") @@ ("right" :> "left") @@
    ("left" :> "right") @@ ("up" :> "down") @@ ("down" :> "up")

\* the dicts the module defines next to the classes
ModuleDicts ==
    [CONV_TO |-> CONV_TO, OPPOSITE_DIR |-> OPPOSITE_DIR,
     TURN_AROUND_FROM |-> TURN_AROUND_FROM]

\* no reading of the mode stands: none was taken, or a status line changed
\* or another operation ran since
NotSeen == [prev |-> "", quiet |-> FALSE]

Min(a, b) == IF a < b THEN a ELSE b

\* zip(x, y) of two lists
zip(x, y) == [j \in 1..Min(Len(x), Len(y)) |-> <<x[j], y[j]>>]

_compile_motor_directions_dict ==
    [key \in DOMAIN MOTOR_DIRECTIONS |-> zip(BIT_LIST, MOTOR_DIRECTIONS[key])]

\* s.replace('LED_', '') on the three names of MOVEMENT_SETTINGS
replace_LED(s) ==
    CASE s = "LED_cont" -> "cont"
      [] s = "LED_burst" -> "burst"
      [] s = "LED_single" -> "single"
      [] OTHER -> s

(***************************************************************************)
(* Python values passed as n_steps, and int(n_steps).                      *)
(***************************************************************************)
PyInt(v) == [type |-> "int", v |-> <<v>>]

\* a float given in halves: PyFloat(3) is 1.5
PyFloat(h) == [type |-> "float", v |-> <<h>>]

\* a str, as its sequence of characters
PyStr(s) == [type |-> "str", v |-> s]

PyNone == [type |-> "NoneType", v |-> <<>>]

Digits == {"0", "1", "2", "3", "4", "5", "6", "7", "8", "9"}

DigitVal(c) ==
    CASE c = "0" -> 0 [] c = "1" -> 1 [] c = "2" -> 2 [] c = "3" -> 3
      [] c = "4" -> 4 [] c = "5" -> 5 [] c = "6" -> 6 [] c = "7" -> 7
      [] c = "8" -> 8 [] c = "9" -> 9

RECURSIVE DecimalVal(_)
DecimalVal(s) ==
    IF Len(s) = 0 THEN 0
    ELSE 10 * DecimalVal(SubSeq(s, 1, Len(s) - 1)) + DigitVal(s[Len(s)])

\* int() of a float truncates toward zero
TruncHalves(h) == IF h >= 0 THEN h \div 2 ELSE -((-h) \div 2)

\* int() of a str: an optional sign and at least one digit, nothing else
IntOfStr(s) ==
    LET signed == Len(s) > 0 /\ s[1] \in {"-", "+"}
        body == IF signed THEN Tail(s) ELSE s
    IN  IF Len(body) = 0 \/ \E j \in 1..Len(body) : body[j] \notin Digits
        THEN Raised("ValueError")
        ELSE Returned(IF signed /\ s[1] = "-"
                      THEN -DecimalVal(body) ELSE DecimalVal(body))

RECURSIVE Pow2(_)
Pow2(k) == IF k = 0 THEN 1 ELSE 2 * Pow2(k - 1)

RECURSIVE BitLength(_)
BitLength(x) == IF x = 0 THEN 0 ELSE 1 + BitLength(x \div 2)

\* n * r for an int n (|n| < 2^12) and a double r: the exact product,
\* rounded to 53 significant bits, ties to even.  The result is a sign and
\* a significand of three limbs (the first may exceed 18 bits) with the
\* exponent of r.
FloatMul(n, r) ==
    LET a == IF n < 0 THEN -n ELSE n
        c0 == a * r.m[3]
        c1 == a * r.m[2] + (c0 \div 262144)
        c2 == a * r.m[1] + (c1 \div 262144)
        p0 == c0 % 262144
        p1 == c1 % 262144
        b == 36 + BitLength(c2) - 53
        unit == Pow2(b)
        low == p0 % unit
        up == \/ 2 * low > unit
              \/ 2 * low = unit /\ (p0 \div unit) % 2 = 1
        q0 == p0 - low + (IF up THEN unit ELSE 0)
        q1 == p1 + (q0 \div 262144)
        q2 == c2 + (q1 \div 262144)
    IN  IF a = 0
        THEN [type |-> "double", neg |-> FALSE, m |-> <<0, 0, 0>>, e |-> r.e]
        ELSE [type |-> "double", neg |-> n < 0,
              m |-> <<q2, q1 % 262144, q0 % 262144>>, e |-> r.e]

\* a conversion to int that rounds to the nearest integer
RoundOfDouble(x) ==
    LET w == (x.m[1] + Pow2(15 - x.e)) \div Pow2(16 - x.e)
    IN  IF x.neg THEN -w ELSE w

\* int() of a double m * 2^(e-52) truncates toward zero: the bits of the
\* significand from bit 52-e upwards, all of them in the first limb
IntOfDouble(x) ==
    LET w == x.m[1] \div Pow2(16 - x.e)
    IN  IF x.neg THEN -w ELSE w

int(x) ==
    CASE x.type = "int" -> Returned(x.v[1])
      [] x.type = "float" -> Returned(TruncHalves(x.v[1]))
      [] x.type = "double" -> Returned(IntOfDouble(x))
      [] x.type = "str" -> IntOfStr(x.v)
      [] OTHER -> Raised("TypeError")

StepperMotorException(msg) == [exc |-> "StepperMotorException", msg |-> msg]

AdvancedStepperMotorException(msg) ==
    [exc |-> "AdvancedStepperMotorException", msg |-> msg]

BuiltinException(name) == [exc |-> name, msg |-> ""]

NoException == [exc |-> "none", msg |-> ""]

\* the ValueError of int() becomes a StepperMotorException, any other
\* exception of int() propagates unchanged
_convert_n_steps_to_int(n_steps) ==
    LET c == int(n_steps)
    IN  CASE c.exc = "none" -> [exc |-> NoException, val |-> c.val]
          [] c.exc = "ValueError" ->
                [exc |-> StepperMotorException("n_steps"), val |-> 0]
          [] OTHER -> [exc |-> BuiltinException(c.exc), val |-> 0]

\* not direction in self.mot_dir.keys() raises
_check_motor_direction(direction) == direction \in DOMAIN mot_dir

\* not dir_change in self.turn_dct.keys() raises
_check_direction_change(dir_change) == dir_change \in DOMAIN turn_dct

\* a conversion that takes the ratio 1 for a direction it does not know
conv_one_step_unit_ratio(conv_to, step_nr) ==
    IF conv_to \notin DOMAIN mod_dct.CONV_TO
    THEN [exc |-> NoException, val |-> step_nr]
    ELSE [exc |-> NoException,
          val |-> int(FloatMul(step_nr, mod_dct.CONV_TO[conv_to])).val]

\* if not conv_to in CONV_TO.keys(): raise ValueError;
\* return int(step_nr*ratio)
conv_one_step(conv_to, step_nr) ==
    IF conv_to \notin DOMAIN mod_dct.CONV_TO
    THEN [exc |-> BuiltinException("ValueError"), val |-> 0]
    ELSE [exc |-> NoException,
          val |-> int(FloatMul(step_nr, mod_dct.CONV_TO[conv_to])).val]

\* a loop bound that is one too far
range_inclusive(n) == 0..n

\* range(n) of a for loop
range(n) == 0..(n - 1)

(***************************************************************************)
(* Inputs drawn by the callers.                                            *)
(***************************************************************************)
\* the seven directions and one name that is none of them
DirectionInputs == DOMAIN MOTOR_DIRECTIONS \cup {"diag"}

\* 0.1 s (the default of walk) and 0.01 s (the default of walk_steps)
DurationInputs == {100000, 10000}

NStepsInputs ==
    {PyInt(v) : v \in (-1)..MaxSteps}
        \cup {PyFloat(-1), PyFloat(3)}
        \cup {PyStr(<<>>), PyStr(<<"2">>), PyStr(<<"-", "1">>),
              PyStr(<<"x">>), PyStr(<<"1", ".", "5">>)}
        \cup {PyNone}

\* the two configured direction changes and two that are not configured
DirChangeInputs == DOMAIN TURN_AROUND_STEP_SEQUENCE \cup {"left_to_right", "up_to_down"}

\* the step numbers handed to conv_one_step
StepNrInputs == (-MaxStepNr)..MaxStepNr

\* the step vectors handed to conv_steps: at most two step numbers
StepVecInputs == UNION {[1..k -> {-41, 100}] : k \in 0..2}

NoCall ==
    [op |-> "none", direction |-> "", n_steps |-> PyNone, duration |-> 0,
     dir_change |-> "", conv_to |-> "", step_nr |-> 0, step_vec |-> <<>>,
     current |-> 0]

NoLocals ==
    [n |-> 0, i |-> 0, setting |-> "", s |-> 0, seq |-> 0,
     w_dir |-> "", w_dur |-> 0, b_dir |-> "", b_n |-> PyNone,
     dir_change |-> ""]

\* the lines the controller drives: its three mode LEDs
StatusChannels == {pin_dct[s] : s \in {MOVEMENT_SETTINGS[j] : j \in 1..Len(MOVEMENT_SETTINGS)}}

(***************************************************************************)
(* The power supply (de_power_supply.py).  Currents are in mA, voltages    *)
(* in uV.                                                                  *)
(***************************************************************************)
\* U3_PIN_CONFIG of de_power_supply.py: terminal label -> channel number
PS_U3_PIN_CONFIG ==
    [FIO0 |-> 0, FIO1 |-> 1, FIO2 |-> 2, FIO3 |-> 3,
     FIO4 |-> 4, FIO5 |-> 5, FIO6 |-> 6, FIO7 |-> 7]

U3_DAC_REGISTER == [DAC0 |-> 5000, DAC1 |-> 5002]

\* a wiring with the programming input on the second analog output
POWER_SUPPLY_WIRING_on_DAC1 ==
    [V_monitor |-> "FIO0", I_monitor |-> "FIO1", I_program |-> "DAC1"]

POWER_SUPPLY_WIRING ==
    [V_monitor |-> "FIO0", I_monitor |-> "FIO1", I_program |-> "DAC0"]

\* the class attributes V_READOUT_MAX [V], V_OUTPUT_MAX [V], I_OUTPUT_MAX [A]
ClassAttributes ==
    [DEPowerSupply |-> [V_READOUT_MAX |-> 1, V_OUTPUT_MAX |-> 1, I_OUTPUT_MAX |-> 1],
     ES03010       |-> [V_READOUT_MAX |-> 5, V_OUTPUT_MAX |-> 30, I_OUTPUT_MAX |-> 10]]

\* FIOEIOAnalog = (2 ** num_channels) - 1, split into its low byte and the rest
_config_FIO_as_analog_input(num_channels) ==
    LET FIOEIOAnalog == Pow2(num_channels) - 1
    IN  [FIOAnalog |-> FIOEIOAnalog % 256, EIOAnalog |-> FIOEIOAnalog \div 256]

\* cls(d): copies of the three dicts, and the device d configured with the
\* first seven lines as analog inputs
DEPowerSupply(cls) ==
    [cls           |-> cls,
     u3_pin_config |-> PS_U3_PIN_CONFIG,
     u3_dac_reg    |-> U3_DAC_REGISTER,
     pw_wiring     |-> POWER_SUPPLY_WIRING,
     d             |-> _config_FIO_as_analog_input(7)]

\* current / cls.I_OUTPUT_MAX * cls.V_READOUT_MAX * (1 + correction_factor)
\* with correction_factor = 0.1, for a current in mA, in uV; the division
\* is exact for both classes
convert_to_readout_voltage(cls, current) ==
    (current * ClassAttributes[cls].V_READOUT_MAX * 1100)
        \div ClassAttributes[cls].I_OUTPUT_MAX

\* the currents a caller sets: below zero, within and above the range of
\* the ES03010
CurrentInputs == {500 * k : k \in -1..MaxCurrent}

\* the voltages the device reads at an analog input
AinLevels == {500000 * k : k \in 0..MaxAin}

(***************************************************************************)
(* The state after construction of an AdvancedStepperMotorControl.         *)
(***************************************************************************)
Init ==
    /\ args = WiringChain
    /\ ret = compress_dict(args)
    /\ pin_dct = compile_wiring_dict
    /\ mot_dir = _compile_motor_directions_dict
    /\ turn_dct = TURN_AROUND_STEP_SEQUENCE
    /\ mod_dct = ModuleDicts
    /\ seen = NotSeen
    /\ supply = DEPowerSupply("DEPowerSupply")
    /\ dio = [ch \in 0..7 |-> 1]
    /\ call = NoCall
    /\ pc = "idle"
    /\ stack = <<>>
    /\ loc = NoLocals
    /\ trace = <<>>
    /\ result = NoException
    /\ retval = "None"
    /\ retnum = <<>>

tables == <<pin_dct, mot_dir, turn_dct, mod_dct, supply, args, ret>>

(***************************************************************************)
(* Control transfer.                                                       *)
(***************************************************************************)
\* an exception nobody catches ends the call
Raise(e) ==
    /\ pc' = "done"
    /\ stack' = <<>>
    /\ result' = e
    /\ retval' = "None"
    /\ retnum' = <<>>

\* return v to the calling function, or to the caller of the operation
Return(v) ==
    IF stack = <<>>
    THEN /\ pc' = "done"
         /\ stack' = <<>>
         /\ result' = NoException
         /\ retval' = v
         /\ retnum' = <<>>
    ELSE /\ pc' = Head(stack)
         /\ stack' = Tail(stack)
         /\ UNCHANGED <<result, retval, retnum>>

\* return numbers to the caller of the operation: an int or an array
ReturnNumbers(type, nums) ==
    /\ pc' = "done"
    /\ stack' = <<>>
    /\ result' = NoException
    /\ retval' = type
    /\ retnum' = nums

\* call a function whose first position is entry, to come back at back
Enter(entry, back) ==
    /\ pc' = entry
    /\ stack' = <<back>> \o stack
    /\ UNCHANGED <<result, retval, retnum>>

Goto(label) ==
    /\ pc' = label
    /\ UNCHANGED <<stack, result, retval, retnum>>

Begin(c, entry, locals) ==
    /\ pc = "idle"
    /\ call' = c
    /\ loc' = locals
    /\ pc' = entry
    /\ stack' = <<>>
    /\ trace' = <<>>
    /\ result' = NoException
    /\ retval' = "None"
    /\ retnum' = <<>>
    /\ seen' = IF c.op = "get_motor_setting"
               THEN [seen EXCEPT !.quiet = TRUE]
               ELSE NotSeen
    /\ UNCHANGED <<dio, tables>>

(***************************************************************************)
(* The DAQ collaborator.                                                   *)
(***************************************************************************)
\* a packet of which only the first command takes effect
ApplyFirstCommand(lines, command_lst) ==
    IF Len(command_lst) = 0 THEN lines
    ELSE [lines EXCEPT ![Head(command_lst)[1]] = Head(command_lst)[2]]

RECURSIVE ApplyCommands(_, _)
\* the U3 executes the commands of one getFeedback packet in order
ApplyCommands(lines, command_lst) ==
    IF Len(command_lst) = 0 THEN lines
    ELSE ApplyCommands([lines EXCEPT ![Head(command_lst)[1]] = Head(command_lst)[2]],
                       Tail(command_lst))

\* self.d.getFeedback(*command_lst): one batched write
getFeedback(command_lst) ==
    /\ dio' = ApplyCommands(dio, command_lst)
    /\ trace' = Append(trace, <<"write", command_lst>>)

\* self.d.getDIOState(io_num)
getDIOState(io_num) == dio[io_num]

\* time.sleep(t)
sleep(t) ==
    /\ trace' = Append(trace, <<"sleep", t>>)
    /\ UNCHANGED dio

\* the controller's mode switch moves: one status line changes level
StatusLineChange ==
    /\ pc # "done"
    /\ \E ch \in StatusChannels : dio' = [dio EXCEPT ![ch] = 1 - @]
    /\ seen' = NotSeen
    /\ UNCHANGED <<call, pc, stack, loc, trace, result, retval, retnum, tables>>

(***************************************************************************)
(* _walk and walk.                                                         *)
(***************************************************************************)
\* the BitStateWrite commands _walk builds for a direction
command_list(direction) ==
    [j \in 1..Len(mot_dir[direction]) |->
        <<pin_dct[mot_dir[direction][j][1]], mot_dir[direction][j][2]>>]

_walk(direction, next) ==
    IF ~ _check_motor_direction(direction)
    THEN /\ Raise(StepperMotorException("direction"))
         /\ UNCHANGED <<dio, trace>>
    ELSE /\ getFeedback(command_list(direction))
         /\ Goto(next)

\* self._walk('stop')
WalkStop1 ==
    /\ pc = "walk_1"
    /\ _walk("stop", "walk_2")
    /\ UNCHANGED <<call, seen, loc, tables>>

\* self._walk(direction)
WalkDirection ==
    /\ pc = "walk_2"
    /\ _walk(loc.w_dir, "walk_3")
    /\ UNCHANGED <<call, seen, loc, tables>>

\* time.sleep(duration*0.5)
WalkHold1 ==
    /\ pc = "walk_3"
    /\ sleep(loc.w_dur \div 2)
    /\ Goto("walk_4")
    /\ UNCHANGED <<call, seen, loc, tables>>

\* a walk that leaves out the closing stop write
WalkStop2Skipped ==
    /\ pc = "walk_4"
    /\ Goto("walk_5")
    /\ UNCHANGED <<dio, call, seen, loc, trace, tables>>

\* self._walk('stop')
WalkStop2 ==
    /\ pc = "walk_4"
    /\ _walk("stop", "walk_5")
    /\ UNCHANGED <<call, seen, loc, tables>>

\* time.sleep(duration*0.5), and walk returns
WalkHold2 ==
    /\ pc = "walk_5"
    /\ sleep(loc.w_dur \div 2)
    /\ Return("None")
    /\ UNCHANGED <<call, seen, loc, tables>>

CallWalk ==
    /\ pc = "idle"
    /\ \E direction \in DirectionInputs, duration \in DurationInputs :
        Begin([NoCall EXCEPT !.op = "walk", !.direction = direction,
                             !.duration = duration],
              "walk_1",
              [NoLocals EXCEPT !.w_dir = direction, !.w_dur = duration])

(***************************************************************************)
(* get_motor_setting.                                                      *)
(***************************************************************************)
\* setting = 'auto' and the start of the loop over MOVEMENT_SETTINGS
gms_locals(l) == [l EXCEPT !.setting = "auto", !.s = 1]

\* a read that releases the line it found low
GetMotorSettingReadClears ==
    /\ pc = "gms"
    /\ LET s == MOVEMENT_SETTINGS[loc.s]
           io_num == pin_dct[s]
           state == getDIOState(io_num)
           setting == IF state = 0 THEN replace_LED(s) ELSE loc.setting
       IN  /\ trace' = Append(trace, <<"read", io_num, state>>)
           /\ dio' = [dio EXCEPT ![io_num] = 1]
           /\ IF loc.s < Len(MOVEMENT_SETTINGS)
              THEN /\ loc' = [loc EXCEPT !.setting = setting, !.s = @ + 1]
                   /\ Goto("gms")
              ELSE /\ loc' = [loc EXCEPT !.setting = setting]
                   /\ Return(setting)
    /\ UNCHANGED <<call, seen, tables>>

\* one pass of the loop: read the line, keep its name if it is low;
\* after the last pass the setting is returned
GetMotorSettingRead ==
    /\ pc = "gms"
    /\ LET s == MOVEMENT_SETTINGS[loc.s]
           io_num == pin_dct[s]
           state == getDIOState(io_num)
           setting == IF state = 0 THEN replace_LED(s) ELSE loc.setting
       IN  /\ trace' = Append(trace, <<"read", io_num, state>>)
           /\ IF loc.s < Len(MOVEMENT_SETTINGS)
              THEN /\ loc' = [loc EXCEPT !.setting = setting, !.s = @ + 1]
                   /\ Goto("gms")
              ELSE /\ loc' = [loc EXCEPT !.setting = setting]
                   /\ Return(setting)
    /\ UNCHANGED <<dio, call, seen, tables>>

CallGetMotorSetting ==
    Begin([NoCall EXCEPT !.op = "get_motor_setting"], "gms", gms_locals(NoLocals))

(***************************************************************************)
(* walk_steps.                                                             *)
(***************************************************************************)
\* n_steps = self._convert_n_steps_to_int(n_steps), then the call of
\* get_motor_setting
WalkStepsConvert ==
    /\ pc = "ws_1"
    /\ LET c == _convert_n_steps_to_int(call.n_steps)
       IN  IF c.exc # NoException
           THEN /\ Raise(c.exc)
                /\ UNCHANGED loc
           ELSE /\ loc' = gms_locals([loc EXCEPT !.n = c.val])
                /\ Enter("gms", "ws_2")
    /\ UNCHANGED <<dio, call, seen, trace, tables>>

\* a gate that waits for the single line to go low instead of raising
WalkStepsModeWaits ==
    /\ pc = "ws_2"
    /\ getDIOState(pin_dct["LED_single"]) = 0
    /\ Goto("ws_3")
    /\ loc' = [loc EXCEPT !.i = 0]
    /\ UNCHANGED <<dio, call, seen, trace, tables>>

\* if setting != 'single': raise
WalkStepsMode ==
    /\ pc = "ws_2"
    /\ IF loc.setting # "single"
       THEN /\ Raise(StepperMotorException("single"))
            /\ UNCHANGED loc
       ELSE /\ Goto("ws_3")
            /\ loc' = [loc EXCEPT !.i = 0]
    /\ UNCHANGED <<dio, call, seen, trace, tables>>

\* for i in range(n_steps): self.walk(direction, duration=duration_per_step)
WalkStepsLoop ==
    /\ pc = "ws_3"
    /\ IF loc.i \in range(loc.n)
       THEN /\ loc' = [loc EXCEPT !.i = @ + 1, !.w_dir = call.direction,
                                  !.w_dur = call.duration]
            /\ Enter("walk_1", "ws_4")
       ELSE /\ Return("None")
            /\ UNCHANGED loc
    /\ UNCHANGED <<dio, call, seen, trace, tables>>

\* time.sleep(0.01)
WalkStepsSleep ==
    /\ pc = "ws_4"
    /\ sleep(STEP_SLEEP)
    /\ Goto("ws_3")
    /\ UNCHANGED <<call, seen, loc, tables>>

CallWalkSteps ==
    /\ pc = "idle"
    /\ \E direction \in DirectionInputs, n_steps \in NStepsInputs,
       duration \in DurationInputs :
        Begin([NoCall EXCEPT !.op = "walk_steps", !.direction = direction,
                             !.n_steps = n_steps, !.duration = duration],
              "ws_1", NoLocals)

(***************************************************************************)
(* walk_bursts.                                                            *)
(***************************************************************************)
WalkBurstsConvert ==
    /\ pc = "wb_1"
    /\ LET c == _convert_n_steps_to_int(loc.b_n)
       IN  IF c.exc # NoException
           THEN /\ Raise(c.exc)
                /\ UNCHANGED loc
           ELSE /\ loc' = gms_locals([loc EXCEPT !.n = c.val])
                /\ Enter("gms", "wb_2")
    /\ UNCHANGED <<dio, call, seen, trace, tables>>

\* the gate of walk_steps copied into walk_bursts unchanged
WalkBurstsModeSingle ==
    /\ pc = "wb_2"
    /\ IF loc.setting # "single"
       THEN /\ Raise(StepperMotorException("burst"))
            /\ UNCHANGED loc
       ELSE /\ Goto("wb_3")
            /\ loc' = [loc EXCEPT !.i = 0]
    /\ UNCHANGED <<dio, call, seen, trace, tables>>

\* if setting != 'burst': raise
WalkBurstsMode ==
    /\ pc = "wb_2"
    /\ IF loc.setting # "burst"
       THEN /\ Raise(StepperMotorException("burst"))
            /\ UNCHANGED loc
       ELSE /\ Goto("wb_3")
            /\ loc' = [loc EXCEPT !.i = 0]
    /\ UNCHANGED <<dio, call, seen, trace, tables>>

\* a loop that looks at the burst line again before every pulse
WalkBurstsLoopGated ==
    /\ pc = "wb_3"
    /\ IF loc.i \in range(loc.n)
       THEN IF getDIOState(pin_dct["LED_burst"]) # 0
            THEN /\ Raise(StepperMotorException("burst"))
                 /\ UNCHANGED loc
            ELSE /\ loc' = [loc EXCEPT !.i = @ + 1, !.w_dir = loc.b_dir,
                                       !.w_dur = BURST_PULSE_DURATION]
                 /\ Enter("walk_1", "wb_4")
       ELSE /\ Return("None")
            /\ UNCHANGED loc
    /\ UNCHANGED <<dio, call, seen, trace, tables>>

\* the loop of walk_steps copied unchanged: the pulse takes the caller's
\* duration, which walk_bursts does not have
WalkBurstsLoopCallerDuration ==
    /\ pc = "wb_3"
    /\ IF loc.i \in range(loc.n)
       THEN /\ loc' = [loc EXCEPT !.i = @ + 1, !.w_dir = loc.b_dir,
                                  !.w_dur = call.duration]
            /\ Enter("walk_1", "wb_4")
       ELSE /\ Return("None")
            /\ UNCHANGED loc
    /\ UNCHANGED <<dio, call, seen, trace, tables>>

\* for i in range(n_steps): self.walk(direction, duration=self.BURST_PULSE_DURATION)
WalkBurstsLoop ==
    /\ pc = "wb_3"
    /\ IF loc.i \in range(loc.n)
       THEN /\ loc' = [loc EXCEPT !.i = @ + 1, !.w_dir = loc.b_dir,
                                  !.w_dur = BURST_PULSE_DURATION]
            /\ Enter("walk_1", "wb_4")
       ELSE /\ Return("None")
            /\ UNCHANGED loc
    /\ UNCHANGED <<dio, call, seen, trace, tables>>

\* time.sleep(0.01)
WalkBurstsSleep ==
    /\ pc = "wb_4"
    /\ sleep(STEP_SLEEP)
    /\ Goto("wb_3")
    /\ UNCHANGED <<call, seen, loc, tables>>

CallWalkBursts ==
    /\ pc = "idle"
    /\ \E direction \in DirectionInputs, n_steps \in NStepsInputs :
        Begin([NoCall EXCEPT !.op = "walk_bursts", !.direction = direction,
                             !.n_steps = n_steps],
              "wb_1",
              [NoLocals EXCEPT !.b_dir = direction, !.b_n = n_steps])

(***************************************************************************)
(* turn_around and turn_around_from.                                       *)
(***************************************************************************)
\* self._check_direction_change(dir_change)
TurnAroundCheck ==
    /\ pc = "ta_1"
    /\ IF ~ _check_direction_change(loc.dir_change)
       THEN /\ Raise(AdvancedStepperMotorException("dir_change"))
            /\ UNCHANGED loc
       ELSE /\ Goto("ta_2")
            /\ loc' = [loc EXCEPT !.seq = 0]
    /\ UNCHANGED <<dio, call, seen, trace, tables>>

\* a loop that takes the pairs of the sequence last to first
TurnAroundLoopReversed ==
    /\ pc = "ta_2"
    /\ LET sequ == turn_dct[loc.dir_change]
       IN  IF loc.seq < Len(sequ)
           THEN /\ loc' = [loc EXCEPT !.seq = @ + 1,
                                      !.b_dir = sequ[Len(sequ) - loc.seq][1],
                                      !.b_n = PyInt(sequ[Len(sequ) - loc.seq][2])]
                /\ Enter("wb_1", "ta_2")
           ELSE /\ Return("None")
                /\ UNCHANGED loc
    /\ UNCHANGED <<dio, call, seen, trace, tables>>

\* a loop that takes each pair off the front of the configured list
TurnAroundLoopConsumes ==
    /\ pc = "ta_2"
    /\ LET sequ == turn_dct[loc.dir_change]
       IN  IF Len(sequ) > 0
           THEN /\ loc' = [loc EXCEPT !.seq = @ + 1,
                                      !.b_dir = sequ[1][1],
                                      !.b_n = PyInt(sequ[1][2])]
                /\ turn_dct' = [turn_dct EXCEPT ![loc.dir_change] = Tail(sequ)]
                /\ Enter("wb_1", "ta_2")
           ELSE /\ Return("None")
                /\ UNCHANGED <<loc, turn_dct>>
    /\ UNCHANGED <<dio, call, seen, trace, pin_dct, mot_dir, mod_dct, supply, args, ret>>

\* for step_sequ in self.turn_dct.get(dir_change): self.walk_bursts(*step_sequ)
TurnAroundLoop ==
    /\ pc = "ta_2"
    /\ LET sequ == turn_dct[loc.dir_change]
       IN  IF loc.seq < Len(sequ)
           THEN /\ loc' = [loc EXCEPT !.seq = @ + 1,
                                      !.b_dir = sequ[loc.seq + 1][1],
                                      !.b_n = PyInt(sequ[loc.seq + 1][2])]
                /\ Enter("wb_1", "ta_2")
           ELSE /\ Return("None")
                /\ UNCHANGED loc
    /\ UNCHANGED <<dio, call, seen, trace, tables>>

CallTurnAround ==
    /\ pc = "idle"
    /\ \E dir_change \in DirChangeInputs :
        Begin([NoCall EXCEPT !.op = "turn_around", !.dir_change = dir_change],
              "ta_1", [NoLocals EXCEPT !.dir_change = dir_change])

\* self._check_motor_direction(direction), dir_change = TURN_AROUND_FROM[direction]
\* and the call of turn_around
TurnAroundFromLookup ==
    /\ pc = "taf_1"
    /\ IF ~ _check_motor_direction(call.direction)
       THEN /\ Raise(StepperMotorException("direction"))
            /\ UNCHANGED loc
       ELSE IF call.direction \notin DOMAIN mod_dct.TURN_AROUND_FROM
       THEN /\ Raise(BuiltinException("KeyError"))
            /\ UNCHANGED loc
       ELSE /\ loc' = [loc EXCEPT !.dir_change =
                                      mod_dct.TURN_AROUND_FROM[call.direction]]
            /\ Enter("ta_1", "taf_2")
    /\ UNCHANGED <<dio, call, seen, trace, tables>>

\* return
TurnAroundFromReturn ==
    /\ pc = "taf_2"
    /\ Return("None")
    /\ UNCHANGED <<dio, call, seen, loc, trace, tables>>

CallTurnAroundFrom ==
    /\ pc = "idle"
    /\ \E direction \in DirectionInputs :
        Begin([NoCall EXCEPT !.op = "turn_around_from", !.direction = direction],
              "taf_1", NoLocals)

(***************************************************************************)
(* conv_one_step and conv_steps.                                           *)
(***************************************************************************)
ConvOneStep ==
    /\ pc = "cos_1"
    /\ LET c == conv_one_step(call.conv_to, call.step_nr)
       IN  IF c.exc # NoException
           THEN Raise(c.exc)
           ELSE ReturnNumbers("int", <<c.val>>)
    /\ UNCHANGED <<dio, call, seen, loc, trace, tables>>

CallConvOneStep ==
    /\ pc = "idle"
    /\ \E conv_to \in DirectionInputs, step_nr \in StepNrInputs :
        Begin([NoCall EXCEPT !.op = "conv_one_step", !.conv_to = conv_to,
                             !.step_nr = step_nr],
              "cos_1", NoLocals)

\* the list comprehension over step_vec, then np.array(..., dtype = np.int):
\* the first element that conv_one_step rejects ends the call; numpy
\* releases from 1.24 on have no attribute np.int, earlier ones build the
\* array
ConvSteps ==
    /\ pc = "cvs_1"
    /\ LET c == [j \in 1..Len(call.step_vec) |->
                    conv_one_step(call.conv_to, call.step_vec[j])]
       IN  IF \E j \in 1..Len(c) : c[j].exc # NoException
           THEN Raise(c[CHOOSE j \in 1..Len(c) :
                            /\ c[j].exc # NoException
                            /\ \A k \in 1..(j - 1) : c[k].exc = NoException].exc)
           ELSE \/ ReturnNumbers("ndarray", [j \in 1..Len(c) |-> c[j].val])
                \/ Raise(BuiltinException("AttributeError"))
    /\ UNCHANGED <<dio, call, seen, loc, trace, tables>>

CallConvSteps ==
    /\ pc = "idle"
    /\ \E conv_to \in DirectionInputs, step_vec \in StepVecInputs :
        Begin([NoCall EXCEPT !.op = "conv_steps", !.conv_to = conv_to,
                             !.step_vec = step_vec],
              "cvs_1", NoLocals)

(***************************************************************************)
(* The caller takes the outcome of the call; the controller is idle again. *)
(***************************************************************************)
Finish ==
    /\ pc = "done"
    /\ pc' = "idle"
    /\ call' = NoCall
    /\ loc' = NoLocals
    /\ stack' = <<>>
    /\ trace' = <<>>
    /\ result' = NoException
    /\ retval' = "None"
    /\ retnum' = <<>>
    /\ seen' = IF call.op = "get_motor_setting" /\ seen.quiet
               THEN [prev |-> retval, quiet |-> FALSE]
               ELSE NotSeen
    /\ UNCHANGED <<dio, tables>>

Next ==
    \/ CallWalk
    \/ CallWalkSteps
    \/ CallWalkBursts
    \/ CallGetMotorSetting
    \/ CallTurnAround
    \/ CallTurnAroundFrom
    \/ CallConvOneStep
    \/ CallConvSteps
    \/ WalkStop1
    \/ WalkDirection
    \/ WalkHold1
    \/ WalkStop2
    \/ WalkHold2
    \/ GetMotorSettingRead
    \/ WalkStepsConvert
    \/ WalkStepsMode
    \/ WalkStepsLoop
    \/ WalkStepsSleep
    \/ WalkBurstsConvert
    \/ WalkBurstsMode
    \/ WalkBurstsLoop
    \/ WalkBurstsSleep
    \/ TurnAroundCheck
    \/ TurnAroundLoop
    \/ TurnAroundFromLookup
    \/ TurnAroundFromReturn
    \/ ConvOneStep
    \/ ConvSteps
    \/ StatusLineChange
    \/ Finish

Spec == Init /\ [][Next]_vars

\* the steps of a running walk, walk_steps, walk_bursts or turn_around: each
\* is a DAQ read or write, a sleep or a computation of the interpreter
Step ==
    \/ WalkStop1
    \/ WalkDirection
    \/ WalkHold1
    \/ WalkStop2
    \/ WalkHold2
    \/ GetMotorSettingRead
    \/ WalkStepsConvert
    \/ WalkStepsMode
    \/ WalkStepsLoop
    \/ WalkStepsSleep
    \/ WalkBurstsConvert
    \/ WalkBurstsMode
    \/ WalkBurstsLoop
    \/ WalkBurstsSleep
    \/ TurnAroundCheck
    \/ TurnAroundLoop

\* the caller calls the four motion operations in any order, the status
\* lines change at any time
NextLive ==
    \/ CallWalk
    \/ CallWalkSteps
    \/ CallWalkBursts
    \/ CallTurnAround
    \/ Step
    \/ StatusLineChange
    \/ Finish

\* every DAQ read, DAQ write and sleep returns: a step that can be taken is
\* taken; nothing is assumed of the status lines or of the caller
SpecLive == Init /\ [][NextLive]_vars /\ WF_vars(Step)

(***************************************************************************)
(* The power supply on its own: an object of either class, its methods     *)
(* called in any order.                                                    *)
(***************************************************************************)
InitPower ==
    /\ supply \in {DEPowerSupply(cls) : cls \in DOMAIN ClassAttributes}
    /\ args = WiringChain
    /\ ret = compress_dict(args)
    /\ pin_dct = compile_wiring_dict
    /\ mot_dir = _compile_motor_directions_dict
    /\ turn_dct = TURN_AROUND_STEP_SEQUENCE
    /\ mod_dct = ModuleDicts
    /\ seen = NotSeen
    /\ dio = [ch \in 0..7 |-> 1]
    /\ call = NoCall
    /\ pc = "idle"
    /\ stack = <<>>
    /\ loc = NoLocals
    /\ trace = <<>>
    /\ result = NoException
    /\ retval = "None"
    /\ retnum = <<>>

\* set_current with _set_ao_value: the lookup of the channel wired to
\* I_program, the conversion, the lookup of the register and
\* self.d.writeRegister(reg, val)
SetCurrent ==
    /\ pc = "sc_1"
    /\ LET dac_channel == supply.pw_wiring["I_program"]
           volt == convert_to_readout_voltage(supply.cls, call.current)
       IN  IF dac_channel \notin DOMAIN supply.u3_dac_reg
           THEN /\ Raise(BuiltinException("KeyError"))
                /\ UNCHANGED trace
           ELSE /\ trace' = Append(trace, <<"writeRegister",
                                            supply.u3_dac_reg[dac_channel], volt>>)
                /\ Return("None")
    /\ UNCHANGED <<dio, call, seen, loc, tables>>

CallSetCurrent ==
    /\ pc = "idle"
    /\ \E current \in CurrentInputs :
        Begin([NoCall EXCEPT !.op = "set_current", !.current = current],
              "sc_1", NoLocals)

\* volt = self.d.getAIN(self.u3_pin_config[ai_channel], negChannel=31);
\* return volt.  The device returns the level it finds at the input.
_get_ai_value(ai_channel) ==
    IF ai_channel \notin DOMAIN supply.u3_pin_config
    THEN /\ Raise(BuiltinException("KeyError"))
         /\ UNCHANGED trace
    ELSE \E volt \in AinLevels :
            /\ trace' = Append(trace, <<"getAIN",
                                        supply.u3_pin_config[ai_channel], 31, volt>>)
            /\ ReturnNumbers("float", <<volt>>)

\* get_voltage: pin_name = self.pw_wiring['V_monitor']
GetVoltage ==
    /\ pc = "gv_1"
    /\ _get_ai_value(supply.pw_wiring["V_monitor"])
    /\ UNCHANGED <<dio, call, seen, loc, tables>>

CallGetVoltage ==
    Begin([NoCall EXCEPT !.op = "get_voltage"], "gv_1", NoLocals)

\* get_current: pin_name = self.pw_wiring['I_monitor']
GetCurrent ==
    /\ pc = "gc_1"
    /\ _get_ai_value(supply.pw_wiring["I_monitor"])
    /\ UNCHANGED <<dio, call, seen, loc, tables>>

CallGetCurrent ==
    Begin([NoCall EXCEPT !.op = "get_current"], "gc_1", NoLocals)

NextPower ==
    \/ CallSetCurrent
    \/ CallGetVoltage
    \/ CallGetCurrent
    \/ SetCurrent
    \/ GetVoltage
    \/ GetCurrent
    \/ Finish

SpecPower == InitPower /\ [][NextPower]_vars

(***************************************************************************)
(* compress_dict on its own: the argument tuple is drawn from the chains   *)
(* of at most MaxChain arguments, each a dict over two labels or a list,   *)
(* or is the wiring chain of compile_wiring_dict.                          *)
(***************************************************************************)
Labels == {"A", "B"}

Mappings == UNION {[S -> Labels] : S \in SUBSET Labels}

ArgInputs == {PyDict(f) : f \in Mappings} \cup {PyList(<<>>)}

ChainInputs == UNION {[1..n -> ArgInputs] : n \in 0..MaxChain}

Pending == Raised("pending")

InitCompose ==
    /\ \/ args \in ChainInputs
       \/ args = WiringChain
    /\ ret = Pending
    /\ pin_dct = compile_wiring_dict
    /\ mot_dir = _compile_motor_directions_dict
    /\ turn_dct = TURN_AROUND_STEP_SEQUENCE
    /\ mod_dct = ModuleDicts
    /\ seen = NotSeen
    /\ supply = DEPowerSupply("DEPowerSupply")
    /\ dio = [ch \in 0..7 |-> 1]
    /\ call = NoCall
    /\ pc = "idle"
    /\ stack = <<>>
    /\ loc = NoLocals
    /\ trace = <<>>
    /\ result = NoException
    /\ retval = "None"
    /\ retnum = <<>>

\* compress_dict(*args)
Compress ==
    /\ ret = Pending
    /\ ret' = compress_dict(args)
    /\ UNCHANGED <<args, pin_dct, mot_dir, turn_dct, mod_dct, dio, call, pc,
                   stack, loc, trace, result, retval, retnum, seen, supply>>

NextCompose == Compress

SpecCompose == InitCompose /\ [][NextCompose]_vars

(***************************************************************************)
(* Properties of compress_dict (checked under SpecCompose).                *)
(***************************************************************************)
Composed == ret # Pending

AllDicts(chain) == \A i \in 1..Len(chain) : chain[i].type = "dict"

RECURSIVE Follow(_, _, _)
\* follow value v through the tables chain[j], chain[j+1], ...: whether
\* every lookup resolved, and the value reached
Follow(chain, j, v) ==
    IF j > Len(chain) THEN <<TRUE, v>>
    ELSE IF v \in DOMAIN chain[j].items
    THEN Follow(chain, j + 1, chain[j].items[v])
    ELSE <<FALSE, v>>

FirstKeys(chain) == DOMAIN chain[1].items

Resolves(chain) == \A k \in FirstKeys(chain) : Follow(chain, 1, k)[1]

\* every value of every mapping but the last is a key of the next mapping
EveryValueIsKey(chain) ==
    \A i \in 1..(Len(chain) - 1) :
        \A k \in DOMAIN chain[i].items :
            chain[i].items[k] \in DOMAIN chain[i + 1].items

ExampleChain ==
    <<PyDict("1" :> "A"), PyDict("A" :> "B"), PyDict("B" :> "C")>>

\* C8: compress_dict applied to a chain of two or more mappings in which
\* every lookup resolves returns the mapping with the key set of the first
\* mapping that sends each key to the value reached by following it through
\* every mapping in order; compress_dict({'1':'A'},{'A':'B'},{'B':'C'}) is
\* {'1':'C'}.
C8_ComposeFollowsChain ==
    /\ compress_dict(ExampleChain) = Returned("1" :> "C")
    /\ (Composed /\ Len(args) >= 2 /\ AllDicts(args) /\ Resolves(args))
          => /\ ret.exc = "none"
             /\ DOMAIN ret.val = FirstKeys(args)
             /\ \A k \in FirstKeys(args) : ret.val[k] = Follow(args, 1, k)[2]

\* a chain of three mappings was composed into a non-empty mapping that
\* differs from the first mapping
C8_Witness ==
    /\ Composed /\ Len(args) = 3 /\ AllDicts(args) /\ Resolves(args)
    /\ ret.exc = "none"
    /\ \E k \in FirstKeys(args) : ret.val[k] # args[1].items[k]

\* C9: compress_dict raises KeyError and returns no mapping whenever some
\* key of the first mapping, followed through the chain, reaches a value
\* that is not a key of the next table.
C9_ComposeRaisesOnMismatch ==
    /\ compress_dict(<<PyDict("A" :> "X"), PyDict("A" :> "B")>>) = Raised("KeyError")
    /\ (Composed /\ Len(args) >= 1 /\ AllDicts(args) /\ ~ Resolves(args))
          => ret = Raised("KeyError")

\* a chain whose first two tables agree and whose third lacks a key was
\* rejected
C9_Witness ==
    /\ Composed /\ Len(args) = 3 /\ AllDicts(args)
    /\ \E k \in FirstKeys(args) :
          /\ k \in DOMAIN args[1].items
          /\ args[1].items[k] \in DOMAIN args[2].items
          /\ args[2].items[args[1].items[k]] \notin DOMAIN args[3].items
    /\ ret = Raised("KeyError")

ValidDirections == {"left", "right", "back", "down", "fwd", "up", "stop"}

IsWrite(e) == e[1] = "write"

IsRead(e) == e[1] = "read"

\* the writes and sleeps of a trace, in order
Ops(t) == SelectSeq(t, LAMBDA e : ~ IsRead(e))

NWrites(t) == Len(SelectSeq(t, IsWrite))

NReads(t) == Len(SelectSeq(t, IsRead))

\* one batched write of the bit vector of direction d to channels 0, 1, 2
W(d) ==
    <<"write", <<<<0, MOTOR_DIRECTIONS[d][1]>>, <<1, MOTOR_DIRECTIONS[d][2]>>,
                 <<2, MOTOR_DIRECTIONS[d][3]>>>>>>

S(t) == <<"sleep", t>>

\* k-th operation of one pulse with its two holds and the inter-step delay
StepEvent(d, dur, k) ==
    CASE k = 1 -> W("stop")
      [] k = 2 -> W(d)
      [] k = 3 -> S(dur \div 2)
      [] k = 4 -> W("stop")
      [] k = 5 -> S(dur \div 2)
      [] k = 6 -> S(10000)

\* j-th operation of a run of such pulses
StepsAt(d, dur, j) == StepEvent(d, dur, ((j - 1) % 6) + 1)

\* the levels of the three control lines are the bit vector of direction d
LinesShow(d) == \A j \in 1..3 : dio[j - 1] = MOTOR_DIRECTIONS[d][j]

ModeError(mode) == [exc |-> "StepperMotorException", msg |-> mode]

StepCountError == [exc |-> "StepperMotorException", msg |-> "n_steps"]

\* the gate of walk_steps / walk_bursts has been passed with this reading
GatePassed(op, mode) ==
    /\ call.op = op
    /\ pc \notin {"idle", "ws_1", "wb_1", "gms"}
    /\ result.msg # "n_steps" /\ result.exc \in {"none", "StepperMotorException"}
    /\ loc.setting = mode

\* C1: walk_steps(direction, n, d) with a valid direction, the mode read as
\* 'single', issues exactly n pulses stop, direction, stop, each followed
\* by the inter-step delay: the writes and sleeps issued so far are always
\* the beginning of that sequence, and at the end they are all of it (3*n
\* writes, none for n = 0) and the call returns normally.
C1_WalkStepsPulses ==
    (GatePassed("walk_steps", "single") /\ call.direction \in ValidDirections
        /\ loc.n >= 0)
        => /\ call.n_steps.type = "int" => loc.n = call.n_steps.v[1]
           /\ LET ops == Ops(trace)
              IN  /\ Len(ops) <= 6 * loc.n
                  /\ \A j \in 1..Len(ops) :
                        ops[j] = StepsAt(call.direction, call.duration, j)
                  /\ pc = "done" => /\ Len(ops) = 6 * loc.n
                                    /\ NWrites(trace) = 3 * loc.n
                                    /\ result = NoException

\* walk_steps has returned after MaxSteps pulses in a moving direction
C1_Witness ==
    /\ call.op = "walk_steps" /\ call.direction = "fwd"
    /\ call.n_steps = PyInt(MaxSteps)
    /\ pc = "done" /\ result = NoException
    /\ NWrites(trace) = 3 * MaxSteps

\* C2: walk_steps with a valid step count and a mode reading other than
\* 'single', and walk_bursts with a reading other than 'burst', raise the
\* mode error having issued the three status reads and no write, for every
\* direction and step count; the mode error is never raised after a write
\* that follows the reading.
C2_ModeGate ==
    /\ \A m \in {"auto", "cont", "burst", "single"} :
          /\ (GatePassed("walk_steps", m) /\ m # "single" /\ pc # "ws_2")
                => /\ pc = "done" /\ result = ModeError("single")
                   /\ NWrites(trace) = 0 /\ Len(trace) = 3
          /\ (GatePassed("walk_bursts", m) /\ m # "burst" /\ pc # "wb_2")
                => /\ pc = "done" /\ result = ModeError("burst")
                   /\ NWrites(trace) = 0 /\ Len(trace) = 3
    /\ (pc = "done" /\ result \in {ModeError("single"), ModeError("burst")})
          => /\ IsRead(trace[Len(trace)])
             /\ loc.setting # result.msg

\* walk_steps was refused in burst mode, for a count of zero
C2_Witness ==
    /\ call.op = "walk_steps" /\ call.n_steps = PyInt(0)
    /\ pc = "done" /\ result = ModeError("single")
    /\ loc.setting = "burst" /\ Len(trace) = 3

\* C3: walk(direction, duration) with a valid direction issues the writes
\* stop, direction, stop, each one batched write that sets the three
\* control lines together, with a hold of duration/2 after the direction
\* write and after the final stop write and none between the first two.
C3_WalkPulse ==
    (call.op = "walk" /\ call.direction \in ValidDirections)
        => /\ Len(trace) <= 5
           /\ \A j \in 1..Len(trace) :
                 trace[j] = StepEvent(call.direction, call.duration, j)
           /\ 2 * (call.duration \div 2) = call.duration
           /\ Len(trace) = 1 => LinesShow("stop")
           /\ Len(trace) \in {2, 3} => LinesShow(call.direction)
           /\ Len(trace) \in {4, 5} => LinesShow("stop")
           /\ pc = "done" => Len(trace) = 5 /\ result = NoException

\* walk has returned after a pulse to the left
C3_Witness ==
    /\ call.op = "walk" /\ call.direction = "left"
    /\ pc = "done" /\ result = NoException
    /\ Len(trace) = 5 /\ LinesShow("stop")

(***************************************************************************)
(* get_motor_setting.                                                      *)
(***************************************************************************)
\* the positions in MOVEMENT_SETTINGS of the lines a finished
\* get_motor_setting read as low
LowLines == {j \in 1..Len(trace) : IsRead(trace[j]) /\ trace[j][3] = 0}

SetMin(X) == CHOOSE x \in X : \A y \in X : x <= y

\* C4 as claimed: when more than one status line is low, get_motor_setting
\* reports the mode of the earliest low line in the order continuous,
\* burst, single.
C4_FirstLowLineWins ==
    (call.op = "get_motor_setting" /\ pc = "done" /\ Cardinality(LowLines) > 1)
        => retval = replace_LED(MOVEMENT_SETTINGS[SetMin(LowLines)])

(***************************************************************************)
(* turn_around and the completion of sequences.                            *)
(***************************************************************************)
\* e is the j-th read of a mode reading: of channel 7, 5, 6 in that order
IsGateRead(e, j) == IsRead(e) /\ e[2] = <<7, 5, 6>>[j]

RECURSIVE IsTurnEvent(_, _, _)
\* e is what a turn over the pairs sequ issues as its j-th DAQ operation:
\* per pair the three status reads, then count burst pulses
IsTurnEvent(e, sequ, j) ==
    IF j <= 3
    THEN IsGateRead(e, j)
    ELSE IF j <= 3 + 6 * sequ[1][2]
    THEN e = StepsAt(sequ[1][1], 150000, j - 3)
    ELSE /\ Len(sequ) > 1
         /\ IsTurnEvent(e, Tail(sequ), j - (3 + 6 * sequ[1][2]))

RECURSIVE SumCounts(_, _)
\* total count of the first m pairs of sequ
SumCounts(sequ, m) == IF m = 0 THEN 0 ELSE SumCounts(sequ, m - 1) + sequ[m][2]

\* the sequence configured for a direction change
Configured(key) ==
    CASE key = "fwd_to_back" -> <<<<"fwd", 100>>, <<"back", 55>>>>
      [] key = "back_to_fwd" -> <<<<"back", 50>>, <<"fwd", 110>>>>

ConfiguredKeys == {"fwd_to_back", "back_to_fwd"}

\* the positions of the writes of direction d in the trace
WritesOf(d) == {j \in 1..Len(trace) : trace[j] = W(d)}

\* the three status reads at the start of the call found the burst line
\* low and the other two high
CalledInBurstMode ==
    /\ Len(trace) >= 3
    /\ trace[1][3] = 1 /\ trace[2][3] = 0 /\ trace[3][3] = 1

\* C5 as claimed: turn_around(key) for a configured key, called in burst
\* mode, executes all pairs of the key: it returns having issued the
\* pulses of every pair.
C5_Original ==
    (call.op = "turn_around" /\ call.dir_change \in ConfiguredKeys
        /\ pc = "done" /\ CalledInBurstMode)
        => /\ result = NoException
           /\ NWrites(trace) = 3 * SumCounts(Configured(call.dir_change), 2)

\* C5 amended: turn_around(key) for a configured key, the mode read as 'burst' at
\* the gate of every pair, executes the pairs in configured order, each as
\* count burst pulses stop, direction, stop, after the three status reads
\* of the pair: each DAQ operation it issues is the next one of that
\* sequence, and at its return it has issued all of them; for
\* 'fwd_to_back' 100 'fwd' pulses, then 55 'back' pulses, none of them
\* before the last 'fwd' pulse.
C5_TurnAroundSequence ==
    (call.op = "turn_around" /\ call.dir_change \in ConfiguredKeys)
        => LET sequ == Configured(call.dir_change)
               total == SumCounts(sequ, Len(sequ))
           IN  /\ Len(trace) <= 3 * Len(sequ) + 6 * total
               /\ Len(trace) > 0 => IsTurnEvent(trace[Len(trace)], sequ, Len(trace))
               /\ pc = "done" =>
                     /\ \A j \in 1..Len(trace) : IsTurnEvent(trace[j], sequ, j)
                     /\ result \in {NoException, ModeError("burst")}
                     /\ result = ModeError("burst") <=> loc.setting # "burst"
               /\ (pc = "done" /\ result = NoException)
                     => /\ Len(trace) = 3 * Len(sequ) + 6 * total
                        /\ NWrites(trace) = 3 * total
               /\ (pc = "done" /\ result = NoException
                     /\ call.dir_change = "fwd_to_back")
                     => /\ Cardinality(WritesOf("fwd")) = 100
                        /\ Cardinality(WritesOf("back")) = 55
                        /\ \A f \in WritesOf("fwd"), b \in WritesOf("back") : f < b

\* turn_around('fwd_to_back') has returned after its 155 pulses
C5_Witness ==
    /\ call.op = "turn_around" /\ call.dir_change = "fwd_to_back"
    /\ pc = "done" /\ result = NoException
    /\ NWrites(trace) = 465
    /\ Cardinality(WritesOf("back")) = 55

\* the pulses requested of the running call: n for walk_steps and
\* walk_bursts, the configured counts for a turn
RequestedPulses ==
    CASE call.op \in {"walk_steps", "walk_bursts"} -> loc.n
      [] call.op \in {"turn_around", "turn_around_from"} ->
            SumCounts(Configured(loc.dir_change), 2)

\* a call of walk_steps, walk_bursts, turn_around or turn_around_from whose
\* direction is valid has issued a write and has ended
SequenceEnded ==
    /\ call.op \in {"walk_steps", "walk_bursts", "turn_around", "turn_around_from"}
    /\ call.op \in {"walk_steps", "walk_bursts"} => call.direction \in ValidDirections
    /\ pc = "done"
    /\ NWrites(trace) > 0

\* C6 as claimed: once the first write is issued, every pulse of the
\* requested sequence is issued, whatever the status lines do; no sequence
\* stops partway.
C6_Original ==
    SequenceEnded
        => /\ result = NoException
           /\ NWrites(trace) = 3 * RequestedPulses

\* C6 amended: walk_steps and walk_bursts, once they have issued a write,
\* issue all n pulses whatever the status lines do; a turn issues all pulses
\* of a pair it has begun, but reads the mode again before each pair and
\* ends with the mode error between two pairs if it is no longer 'burst'.
C6_RunsToCompletionWithinAPair ==
    SequenceEnded
        => \/ /\ result = NoException
              /\ NWrites(trace) = 3 * RequestedPulses
           \/ /\ call.op \in {"turn_around", "turn_around_from"}
              /\ result = ModeError("burst")
              /\ \E m \in 1..(Len(Configured(loc.dir_change)) - 1) :
                    /\ NWrites(trace) = 3 * SumCounts(Configured(loc.dir_change), m)
                    /\ NReads(trace) = 3 * (m + 1)
                    /\ loc.seq = m + 1
              /\ loc.setting # "burst"

\* the status lines changed during a walk_bursts of MaxSteps pulses, which
\* still returned after all of them
C6_Witness ==
    /\ call.op = "walk_bursts" /\ call.direction = "back"
    /\ pc = "done" /\ result = NoException
    /\ loc.n = MaxSteps /\ NWrites(trace) = 3 * MaxSteps
    /\ dio[5] = 1 /\ trace[2] = <<"read", 5, 0>>

(***************************************************************************)
(* The step count.                                                         *)
(***************************************************************************)
\* int(x) succeeds with a value that is not negative
NonNegativeInteger(x) == int(x).exc = "none" /\ int(x).val >= 0

\* C7 as claimed: walk_steps and walk_bursts fail with the step count
\* error, without a DAQ read or write, whenever the step count cannot be
\* interpreted as a non-negative integer; a negative count is rejected.
C7_StepCountRejected ==
    (call.op \in {"walk_steps", "walk_bursts"}
        /\ ~ NonNegativeInteger(call.n_steps)
        /\ pc \notin {"ws_1", "wb_1"})
        => /\ pc = "done"
           /\ result = StepCountError
           /\ trace = <<>>

(***************************************************************************)
(* The direction encoder.                                                  *)
(***************************************************************************)
\* the bit vector the controller's manual fixes for a direction
FixedBitVector(d) ==
    CASE d = "left" -> <<1, 0, 1>>
      [] d = "right" -> <<1, 1, 0>>
      [] d = "back" -> <<0, 1, 0>>
      [] d = "down" -> <<1, 0, 0>>
      [] d = "fwd" -> <<0, 0, 1>>
      [] d = "up" -> <<0, 1, 1>>
      [] d = "stop" -> <<1, 1, 1>>

\* C11: for each of the seven directions the encoded bit pattern
\* (self.mot_dir[direction]) has exactly the three keys bit0, bit1, bit2 in
\* that order, with the direction's fixed bit vector as values; left is
\* bit0:1, bit1:0, bit2:1 and stop is 1, 1, 1.  No other name is encoded.
C11_EncodeBitPattern ==
    /\ DOMAIN mot_dir = ValidDirections
    /\ \A d \in ValidDirections :
          /\ Len(mot_dir[d]) = 3
          /\ \A j \in 1..3 :
                mot_dir[d][j] = <<<<"bit0", "bit1", "bit2">>[j], FixedBitVector(d)[j]>>
    /\ mot_dir["left"] = <<<<"bit0", 1>>, <<"bit1", 0>>, <<"bit2", 1>>>>
    /\ mot_dir["stop"] = <<<<"bit0", 1>>, <<"bit1", 1>>, <<"bit2", 1>>>>

\* the pattern of 'left' was taken from the encoder and written to the
\* three control lines
C11_Witness ==
    /\ call.op = "walk" /\ call.direction = "left"
    /\ Len(trace) = 2
    /\ trace[2] = <<"write", [j \in 1..3 |->
                        <<pin_dct[mot_dir["left"][j][1]], mot_dir["left"][j][2]>>]>>
    /\ dio[0] = 1 /\ dio[1] = 0 /\ dio[2] = 1

DirectionError == [exc |-> "StepperMotorException", msg |-> "direction"]

\* C12 as claimed: walk, walk_steps with the mode read as 'single' and
\* walk_bursts with the mode read as 'burst', called with a name that is
\* none of the seven directions, end with the invalid direction error, for
\* every step count n >= 0, n = 0 included.
C12_InvalidDirectionRejected ==
    (/\ pc = "done"
     /\ call.direction \notin ValidDirections
     /\ \/ call.op = "walk"
        \/ GatePassed("walk_steps", "single") /\ loc.n >= 0
        \/ GatePassed("walk_bursts", "burst") /\ loc.n >= 0)
        => result = DirectionError

DirectionChangeError ==
    [exc |-> "AdvancedStepperMotorException", msg |-> "dir_change"]

\* C13 as claimed: turn_around_from(direction), when no mode reading stops
\* it, ends in one of three ways: it has performed the configured turn
\* sequence, or it raised the invalid direction error, or it raised the
\* invalid direction change error; for 'up', 'down' and 'stop' it raises
\* one of these two errors.
C13_TurnAroundFromOutcomes ==
    (call.op = "turn_around_from" /\ pc = "done" /\ result # ModeError("burst"))
        => /\ result \in {NoException, DirectionError, DirectionChangeError}
           /\ result = NoException
                 => NWrites(trace) = 3 * SumCounts(Configured(loc.dir_change), 2)
           /\ call.direction \in {"up", "down", "stop"}
                 => result \in {DirectionError, DirectionChangeError}

(***************************************************************************)
(* The unit converter.                                                     *)
(***************************************************************************)
\* the ratio of a direction as the fraction the configuration writes
RatioOf(d) ==
    CASE d = "left" -> <<87, 78>>
      [] d = "right" -> <<78, 87>>
      [] d = "fwd" -> <<450, 205>>
      [] d = "back" -> <<78, 87>>

\* the quotient a / b (b > 0) truncated toward zero
TruncDiv(a, b) == IF a >= 0 THEN a \div b ELSE -((-a) \div b)

\* C14: conv_one_step(conv_to, step_nr), for each of the four directions
\* that have a ratio and every integer step_nr from -MaxStepNr to
\* MaxStepNr, returns the int that is step_nr times the ratio truncated
\* toward zero, never rounded; conv_one_step('fwd', 100) is 219.
C14_ConvertTruncates ==
    (call.op = "conv_one_step" /\ pc = "done"
        /\ call.conv_to \in {"left", "right", "fwd", "back"})
        => /\ result = NoException
           /\ retval = "int"
           /\ retnum = <<TruncDiv(call.step_nr * RatioOf(call.conv_to)[1],
                                  RatioOf(call.conv_to)[2])>>
           /\ (call.conv_to = "fwd" /\ call.step_nr = 100) => retnum = <<219>>

\* conv_one_step('fwd', 100) has returned 219, where rounding gives 220
C14_Witness ==
    /\ call.op = "conv_one_step" /\ pc = "done"
    /\ call.conv_to = "fwd" /\ call.step_nr = 100
    /\ result = NoException /\ retval = "int" /\ retnum = <<219>>
    /\ 2 * ((100 * 450) % 205) > 205

\* C15: conv_one_step raises an error (Python's ValueError) and returns
\* nothing for every conv_to that has no ratio, 'up', 'down' and 'stop'
\* among them, and conv_steps raises the same error whenever its step
\* vector is not empty.
C15_ConvertRejectsDirection ==
    (/\ pc = "done"
     /\ call.conv_to \notin {"left", "right", "fwd", "back"}
     /\ \/ call.op = "conv_one_step"
        \/ call.op = "conv_steps" /\ call.step_vec # <<>>)
        => /\ result = BuiltinException("ValueError")
           /\ retval = "None" /\ retnum = <<>>

\* conv_steps('up', [100]) has raised
C15_Witness ==
    /\ call.op = "conv_steps" /\ pc = "done"
    /\ call.conv_to = "up" /\ Len(call.step_vec) > 0
    /\ result = BuiltinException("ValueError")

(***************************************************************************)
(* The mode read-back.                                                     *)
(***************************************************************************)
\* C16: get_motor_setting only observes: all it issues are reads of the
\* three status lines (channels 7, 5, 6), never a write; and a call made
\* after another call of it, no status line having changed since that one
\* began, returns the value that one returned.
C16_ModeReadOnly ==
    call.op = "get_motor_setting"
        => /\ Len(trace) <= 3
           /\ \A j \in 1..Len(trace) : IsGateRead(trace[j], j)
           /\ NWrites(trace) = 0
           /\ pc = "done" => Len(trace) = 3
           /\ (pc = "done" /\ seen.quiet /\ seen.prev # "") => retval = seen.prev

\* two calls in a row, the lines still, have both returned 'burst'
C16_Witness ==
    /\ call.op = "get_motor_setting" /\ pc = "done"
    /\ seen.quiet /\ seen.prev = "burst"
    /\ retval = "burst" /\ NReads(trace) = 3

\* C17 as claimed: get_motor_setting returns 'auto' exactly when it read no
\* status line as low, and otherwise one of 'continuous', 'burst',
\* 'single'; the value returned is always one of these four names.
C17_ModeNames ==
    (call.op = "get_motor_setting" /\ pc = "done")
        => /\ retval \in {"continuous", "burst", "single", "auto"}
           /\ retval = "auto" <=> LowLines = {}
           /\ LowLines # {} => retval \in {"continuous", "burst", "single"}

(***************************************************************************)
(* The tables.                                                             *)
(***************************************************************************)
\* C18: after construction no call of walk, walk_steps, walk_bursts,
\* get_motor_setting, turn_around, turn_around_from, conv_one_step or
\* conv_steps, ended normally or by an error or still running, changes the
\* wiring mapping, the direction bit patterns, the turn sequences, the
\* conversion ratios or the opposite-direction and turn-around-key tables:
\* each is in every state what construction made it.
C18_TablesImmutable ==
    /\ pin_dct = compile_wiring_dict
    /\ pin_dct["bit0"] = 0 /\ pin_dct["LED_burst"] = 5
    /\ mot_dir = _compile_motor_directions_dict
    /\ turn_dct = TURN_AROUND_STEP_SEQUENCE
    /\ turn_dct["fwd_to_back"] = <<<<"fwd", 100>>, <<"back", 55>>>>
    /\ mod_dct.CONV_TO = CONV_TO
    /\ mod_dct.OPPOSITE_DIR = OPPOSITE_DIR
    /\ mod_dct.TURN_AROUND_FROM = TURN_AROUND_FROM

\* turn_around_from('fwd') is past its first pulse, having used every table
\* but the ratios, and walk_steps has failed on a direction: the tables are
\* as constructed
C18_Witness ==
    /\ \/ /\ call.op = "turn_around_from" /\ call.direction = "fwd"
          /\ NWrites(trace) >= 3
       \/ /\ call.op = "walk_steps" /\ pc = "done" /\ result = DirectionError
          /\ NWrites(trace) = 1
    /\ turn_dct = TURN_AROUND_STEP_SEQUENCE
    /\ mod_dct = ModuleDicts
    /\ pin_dct = compile_wiring_dict
    /\ mot_dir = _compile_motor_directions_dict

(***************************************************************************)
(* walk_bursts against walk_steps.                                         *)
(***************************************************************************)
\* the writes of n pulses in direction d: n times stop, d, stop
PulseWrites(d, n) ==
    [j \in 1..(3 * n) |-> IF j % 3 = 2 THEN W(d) ELSE W("stop")]

\* the sleeps of n pulses of duration dur: per pulse the two holds and the
\* delay between steps
PulseSleeps(dur, n) ==
    [j \in 1..(3 * n) |-> IF j % 3 = 0 THEN S(10000) ELSE S(dur \div 2)]

Writes(t) == SelectSeq(t, IsWrite)

Sleeps(t) == SelectSeq(t, LAMBDA e : e[1] = "sleep")

\* C19: walk_bursts(direction, n) with a valid direction, the mode read as
\* 'burst', issues the writes that walk_steps(direction, n, d) issues with
\* the mode read as 'single': n times stop, direction, stop, interleaved
\* with the sleeps in the same way; only the two holds of each pulse are
\* half the fixed burst pulse duration (0.15 s) where walk_steps holds d/2.
C19_BurstsAsSteps ==
    /\ (GatePassed("walk_steps", "single") /\ call.direction \in ValidDirections
           /\ loc.n >= 0 /\ pc = "done")
          => /\ result = NoException
             /\ Writes(trace) = PulseWrites(call.direction, loc.n)
             /\ Sleeps(trace) = PulseSleeps(call.duration, loc.n)
    /\ (GatePassed("walk_bursts", "burst") /\ call.direction \in ValidDirections
           /\ loc.n >= 0)
          => LET ops == Ops(trace)
             IN  /\ \A j \in 1..Len(ops) : ops[j] = StepsAt(call.direction, 150000, j)
                 /\ pc = "done"
                       => /\ result = NoException
                          /\ Writes(trace) = PulseWrites(call.direction, loc.n)
                          /\ Sleeps(trace) = PulseSleeps(BURST_PULSE_DURATION, loc.n)

\* walk_bursts('up', 2) has returned after its two pulses of 0.15 s
C19_Witness ==
    /\ call.op = "walk_bursts" /\ call.direction = "up"
    /\ pc = "done" /\ result = NoException /\ loc.n = 2
    /\ Writes(trace) = <<W("stop"), W("up"), W("stop"), W("stop"), W("up"), W("stop")>>
    /\ Sleeps(trace)[1] = <<"sleep", 75000>>

(***************************************************************************)
(* turn_around_from against turn_around.                                   *)
(***************************************************************************)
\* the key turn_around_from resolves for a direction
KeyFrom(d) ==
    CASE d = "fwd" -> "fwd_to_back"
      [] d = "back" -> "back_to_fwd"

\* the running call issues what a turn over the pairs configured for key
\* issues: so far the beginning of the status reads and burst pulses of the
\* pairs in order, and at its end either all of them, or those up to a mode
\* reading that was not 'burst'
IssuesTurn(key) ==
    LET sequ == Configured(key)
        total == SumCounts(sequ, Len(sequ))
    IN  /\ Len(trace) <= 3 * Len(sequ) + 6 * total
        /\ Len(trace) > 0 => IsTurnEvent(trace[Len(trace)], sequ, Len(trace))
        /\ pc = "done"
              => /\ \A j \in 1..Len(trace) : IsTurnEvent(trace[j], sequ, j)
                 /\ result \in {NoException, ModeError("burst")}
                 /\ result = ModeError("burst") <=> loc.setting # "burst"
                 /\ result = NoException
                       => /\ Len(trace) = 3 * Len(sequ) + 6 * total
                          /\ Writes(trace) =
                                PulseWrites(sequ[1][1], sequ[1][2])
                                    \o PulseWrites(sequ[2][1], sequ[2][2])

\* C20: for 'fwd' and 'back' turn_around_from(d) issues the status reads
\* and writes that turn_around(TURN_AROUND_FROM[d]) issues: it issues none
\* of its own before or after the turn, hands turn_around the key
\* TURN_AROUND_FROM[d], and what it issues meets the description that the
\* calls of turn_around with that key meet, and ends as they end.
C20_TurnAroundFromAsTurnAround ==
    /\ (call.op = "turn_around" /\ call.dir_change \in ConfiguredKeys)
          => IssuesTurn(call.dir_change)
    /\ (call.op = "turn_around_from" /\ call.direction \in {"fwd", "back"})
          => /\ pc = "taf_1" => trace = <<>>
             /\ pc # "taf_1" => loc.dir_change = KeyFrom(call.direction)
             /\ IssuesTurn(KeyFrom(call.direction))
             /\ pc = "taf_2"
                   => NWrites(trace) = 3 * SumCounts(Configured(loc.dir_change), 2)

\* turn_around_from('back') has returned after the 50 'back' and 110 'fwd'
\* pulses of 'back_to_fwd'
C20_Witness ==
    /\ call.op = "turn_around_from" /\ call.direction = "back"
    /\ pc = "done" /\ result = NoException
    /\ loc.dir_change = "back_to_fwd"
    /\ NWrites(trace) = 480
    /\ Cardinality(WritesOf("fwd")) = 110

(***************************************************************************)
(* The ratios of opposite directions.                                      *)
(***************************************************************************)
\* C21 as claimed: conv_one_step(d, n) turns a count n measured along the
\* opposite direction into the count of the same distance along d: the
\* opposite direction of d has a ratio too, the two ratios are reciprocal
\* as exact fractions, and so converting the result back along the opposite
\* direction returns n but for the two truncations (at most 2 less).
C21_ReciprocalRatios ==
    (call.op = "conv_one_step" /\ pc = "done" /\ result = NoException
        /\ call.step_nr >= 0)
        => LET d == call.conv_to
               o == mod_dct.OPPOSITE_DIR[d]
               back == conv_one_step(o, retnum[1])
           IN  /\ d \in DOMAIN mod_dct.OPPOSITE_DIR
               /\ o \in DOMAIN mod_dct.CONV_TO
               /\ RatioOf(d)[1] * RatioOf(o)[1] = RatioOf(d)[2] * RatioOf(o)[2]
               /\ back.exc = NoException
               /\ back.val \in (call.step_nr - 2)..call.step_nr

(***************************************************************************)
(* The control lines between pulses.                                       *)
(***************************************************************************)
\* C22: when walk, walk_steps, walk_bursts, turn_around or
\* turn_around_from has returned or raised after at least one write, the
\* last write carried the stop pattern and the three control lines show
\* it; another pattern is on the lines only between the direction write
\* of a walk and its closing stop write; walk with an unknown direction
\* writes stop once and raises the direction error.
C22_LinesRestAtStop ==
    /\ (call.op \in {"walk", "walk_steps", "walk_bursts", "turn_around",
                      "turn_around_from"}
           /\ pc = "done" /\ NWrites(trace) > 0)
          => /\ Writes(trace)[NWrites(trace)] = W("stop")
             /\ LinesShow("stop")
    /\ ~ LinesShow("stop")
          => /\ pc \in {"walk_3", "walk_4"}
             /\ loc.w_dir \in ValidDirections \ {"stop"}
             /\ LinesShow(loc.w_dir)
    /\ (call.op = "walk" /\ call.direction \notin ValidDirections /\ pc = "done")
          => /\ trace = <<W("stop")>>
             /\ result = DirectionError

\* walk('diag') has raised after its one stop write
C22_Witness ==
    /\ call.op = "walk" /\ call.direction = "diag"
    /\ pc = "done" /\ result = DirectionError
    /\ trace = <<W("stop")>>
    /\ LinesShow("stop")

(***************************************************************************)
(* The channels addressed.                                                 *)
(***************************************************************************)
\* a DAQ operation addresses only channels it may: a write the three
\* control channels, each once, a read one status channel, none of them
\* the channel of GND
Separated(e) ==
    /\ IsWrite(e)
          => /\ Len(e[2]) = 3
             /\ {e[2][k][1] : k \in 1..3} = {0, 1, 2}
             /\ \A k \in 1..3 : e[2][k][1] \notin {5, 6, 7, -1}
    /\ IsRead(e) => e[2] \in {5, 6, 7} /\ e[2] \notin {0, 1, 2, -1}

\* C23: the wiring maps bit0, bit1, bit2 to channels 0, 1, 2 and LED_cont,
\* LED_burst, LED_single to 7, 5, 6; every digital write goes to the three
\* control channels and to no other, every status read to one of the three
\* status channels; no operation writes a status channel, reads a control
\* channel or addresses the channel None of GND.
C23_ChannelSeparation ==
    /\ pin_dct["bit0"] = 0 /\ pin_dct["bit1"] = 1 /\ pin_dct["bit2"] = 2
    /\ pin_dct["LED_cont"] = 7 /\ pin_dct["LED_burst"] = 5
    /\ pin_dct["LED_single"] = 6
    /\ pin_dct["GND"] = -1
    /\ Len(trace) > 0 => Separated(trace[Len(trace)])
    /\ pc = "done" => \A j \in 1..Len(trace) : Separated(trace[j])
    /\ \A ch \in {3, 4} : dio[ch] = 1

\* walk_steps has read the three status lines and written a pulse
C23_Witness ==
    /\ call.op = "walk_steps" /\ pc = "done" /\ result = NoException
    /\ NReads(trace) = 3 /\ NWrites(trace) = 3
    /\ trace[3] = <<"read", 6, 0>>
    /\ trace[5] = <<"write", <<<<0, 0>>, <<1, 1>>, <<2, 0>>>>>>

(***************************************************************************)
(* Termination (checked under SpecLive).                                   *)
(***************************************************************************)
Max(a, b) == IF a > b THEN a ELSE b

\* the running call is one of walk, walk_steps, walk_bursts, turn_around
\* and has not ended
Running ==
    /\ call.op \in {"walk", "walk_steps", "walk_bursts", "turn_around"}
    /\ pc # "done"

\* the writes of an ended call are at most three per requested pulse
WritesBounded ==
    /\ (call.op = "walk" /\ pc = "done") => NWrites(trace) <= 3
    /\ (call.op \in {"walk_steps", "walk_bursts"} /\ pc = "done")
          => /\ NWrites(trace) <= 3 * Max(loc.n, 0)
             /\ loc.i <= Max(loc.n, 0)
    /\ (call.op = "turn_around" /\ pc = "done")
          => /\ call.dir_change \in ConfiguredKeys
                   => NWrites(trace) <= 3 * SumCounts(Configured(call.dir_change), 2)
             /\ call.dir_change \notin ConfiguredKeys => NWrites(trace) = 0

\* C24: if every DAQ read, write and sleep returns, each call of walk,
\* walk_steps, walk_bursts and turn_around ends, by return or by an error,
\* whatever the status lines do and without waiting for them; it has then
\* issued at most 3*n writes for a count n (3 for walk, none for a count
\* below zero, at most 3 times the sum of the configured counts for
\* turn_around).
C24_Termination == []WritesBounded /\ (Running ~> (pc = "done"))

\* walk_steps has ended after the 3*MaxSteps writes of MaxSteps pulses
C24_Witness ==
    /\ call.op = "walk_steps" /\ pc = "done"
    /\ loc.n = MaxSteps /\ loc.i = MaxSteps
    /\ NWrites(trace) = 3 * MaxSteps

(***************************************************************************)
(* The power supply's DAQ accesses (checked under SpecPower).              *)
(***************************************************************************)
IsRegisterWrite(e) == e[1] = "writeRegister"

IsAnalogRead(e) == e[1] = "getAIN"

\* C25: set_current issues exactly one analog register write, to register
\* 5000 of DAC0, the channel wired as I_program, and no analog read;
\* get_voltage issues exactly one analog read, of channel 0 wired as
\* V_monitor, get_current exactly one of channel 1 wired as I_monitor, and
\* neither writes; none of them touches the digital lines, and nothing is
\* issued before the one access.
C25_PowerSupplyAccess ==
    /\ supply.u3_dac_reg[supply.pw_wiring["I_program"]] = 5000
    /\ supply.pw_wiring["I_program"] = "DAC0"
    /\ supply.u3_pin_config[supply.pw_wiring["V_monitor"]] = 0
    /\ supply.u3_pin_config[supply.pw_wiring["I_monitor"]] = 1
    /\ pc \in {"sc_1", "gv_1", "gc_1"} => trace = <<>>
    /\ (call.op = "set_current" /\ pc = "done")
          => /\ result = NoException
             /\ Len(trace) = 1
             /\ IsRegisterWrite(trace[1]) /\ trace[1][2] = 5000
             /\ trace[1][3] = convert_to_readout_voltage(supply.cls, call.current)
    /\ (call.op = "get_voltage" /\ pc = "done")
          => /\ result = NoException
             /\ Len(trace) = 1
             /\ IsAnalogRead(trace[1]) /\ trace[1][2] = 0 /\ trace[1][3] = 31
             /\ retnum = <<trace[1][4]>>
    /\ (call.op = "get_current" /\ pc = "done")
          => /\ result = NoException
             /\ Len(trace) = 1
             /\ IsAnalogRead(trace[1]) /\ trace[1][2] = 1 /\ trace[1][3] = 31
             /\ retnum = <<trace[1][4]>>

\* set_current(1 A) on an ES03010 has written 0.55 V to register 5000
C25_Witness ==
    /\ call.op = "set_current" /\ pc = "done" /\ supply.cls = "ES03010"
    /\ call.current = 1000
    /\ trace = <<<<"writeRegister", 5000, 550000>>>>

====
